---- MODULE Spec2Model ----
(***************************************************************************)
(* A model of the NPC decision engine of src/server/npcAI.js: the          *)
(* coordinate helper, the occupancy oracle, the BFS pathfinder, the        *)
(* flood-fill space estimator, the difficulty table, the decision policy   *)
(* (decideNPCMove) and the tick dispatcher (processNPCInputs).             *)
(*                                                                         *)
(* Math.random() returns a number in [0, 1); the model draws it in         *)
(* hundredths (r stands for r / 100), so errorChance 0.25 is 25 and the    *)
(* keep-heading probability 0.6 is 60.                                     *)
(***************************************************************************)
EXTENDS Integers, Sequences, FiniteSets, TLC

VARIABLES
  GRID_WIDTH,   \* imported from ./gameLogic (npcAI.js:2); fixed at Init
  GRID_HEIGHT,  \* imported from ./gameLogic (npcAI.js:2); fixed at Init
  gameState,    \* [wallMode, players, food]
  npcs,         \* the Map of bot agents: player id -> [difficulty, decisionDelay]
  call,         \* what the last step was: "init", "tick", "retick"
  rand,         \* the Math.random() draws the last tick consumed, in order
  proposal,     \* player id -> what decideNPCMove returned in the last tick
  history,      \* the states before each tick so far, the latest first (a run
                \* of many ticks keeps the latest only)
  probe         \* the last direct call of a helper, with its arguments and result;
                \* in a run of many ticks, what the run has seen of each agent

vars == <<GRID_WIDTH, GRID_HEIGHT, gameState, npcs, call, rand, proposal, history, probe>>

(***************************************************************************)
(* Bounds of the model.                                                    *)
(***************************************************************************)
SmallW == 3
SmallH == 3
MaxSnakeLen == 3
LongW == 7
LongH == 6
MaxLimit == 10
MaxTicks == 12

(***************************************************************************)
(* Values.                                                                 *)
(***************************************************************************)
Null == "null"
possibleMoves == <<"up", "down", "left", "right">>
Directions == {"up", "down", "left", "right"}
Difficulties == {"easy", "medium", "hard", "insane"}
RandomDraws == {0, 10, 30, 80}

Pos(x, y) == [x |-> x, y |-> y]

Cells == {Pos(x, y) : x \in 0..(GRID_WIDTH - 1), y \in 0..(GRID_HEIGHT - 1)}

Abs(n) == IF n < 0 THEN -n ELSE n
Min(a, b) == IF a < b THEN a ELSE b

SeqSet(s) == {s[i] : i \in 1..Len(s)}

(***************************************************************************)
(* createNPC: a bot agent. name, type and targetFood are never read or     *)
(* written by the decision engine.                                         *)
\* The element of a set of one element.  In The({f(x) : x \in {e}}) the value
\* of e is computed once, however often f uses it.
The(S) == CHOOSE x \in S : TRUE

(***************************************************************************)
createNPC(difficulty) == [difficulty |-> difficulty, decisionDelay |-> 0]

(***************************************************************************)
(* getDifficultySettings: the table, errorChance in hundredths.            *)
(***************************************************************************)
easySettings ==
  [reactionDelayFrames |-> 10, errorChance |-> 25,
   usePathfinding |-> FALSE, safetyCheck |-> FALSE]
mediumSettings ==
  [reactionDelayFrames |-> 4, errorChance |-> 5,
   usePathfinding |-> TRUE, safetyCheck |-> FALSE]
\* The top tier with a reaction delay of one frame.
slowHardSettings ==
  [reactionDelayFrames |-> 1, errorChance |-> 0, usePathfinding |-> TRUE,
   safetyCheck |-> TRUE]

\* The top tier with the middle tier's error chance.
clumsyHardSettings ==
  [reactionDelayFrames |-> 0, errorChance |-> 5, usePathfinding |-> TRUE,
   safetyCheck |-> TRUE]

hardSettings ==
  [reactionDelayFrames |-> 0, errorChance |-> 0,
   usePathfinding |-> TRUE, safetyCheck |-> TRUE]

getDifficultySettings(difficulty) ==
  CASE difficulty = "easy" -> easySettings
    [] difficulty = "medium" -> mediumSettings
    [] difficulty = "hard" -> hardSettings
    [] OTHER -> mediumSettings

(***************************************************************************)
(* getNextCoord: one step; raw under walls, modulo the grid when wrapping. *)
(***************************************************************************)
getNextCoord(pos, direction, wallMode) ==
  LET x == CASE direction = "left" -> pos.x - 1
             [] direction = "right" -> pos.x + 1
             [] OTHER -> pos.x
      y == CASE direction = "up" -> pos.y - 1
             [] direction = "down" -> pos.y + 1
             [] OTHER -> pos.y
  IN IF wallMode
       THEN Pos(x, y)
       ELSE Pos((x + GRID_WIDTH) % GRID_WIDTH, (y + GRID_HEIGHT) % GRID_HEIGHT)

(***************************************************************************)
(* isOccupied: out of bounds under walls, or a segment (tail included) of  *)
(* a living player's snake.                                                *)
(***************************************************************************)
isOccupied(pos, gs, myId) ==
  \/ /\ gs.wallMode
     /\ \/ pos.x < 0
        \/ pos.x >= GRID_WIDTH
        \/ pos.y < 0
        \/ pos.y >= GRID_HEIGHT
  \/ \E id \in DOMAIN gs.players :
       /\ gs.players[id].isAlive
       /\ \E i \in 1..Len(gs.players[id].snake) : gs.players[id].snake[i] = pos

(***************************************************************************)
(* isMoveImmediatelySafe                                                   *)
(***************************************************************************)
isMoveImmediatelySafe(head, direction, gs, myId) ==
  LET nextPos == getNextCoord(head, direction, gs.wallMode)
  IN IF /\ gs.wallMode
        /\ \/ nextPos.x < 0
           \/ nextPos.x >= GRID_WIDTH
           \/ nextPos.y < 0
           \/ nextPos.y >= GRID_HEIGHT
       THEN FALSE
       ELSE ~isOccupied(nextPos, gs, myId)

(***************************************************************************)
(* countAccessibleTiles: the flood fill, an explicit stack popped from the *)
(* end, neighbours marked visited when pushed, stopped at the limit.       *)
(***************************************************************************)
\* The neighbours pushed without being marked as visited.
RECURSIVE pushUnmarked(_, _, _, _, _, _)
pushUnmarked(i, current, stack, visited, gs, myId) ==
  IF i > Len(possibleMoves)
    THEN [stack |-> stack, visited |-> visited]
    ELSE LET next == getNextCoord(current, possibleMoves[i], gs.wallMode)
         IN IF next \notin visited /\ ~isOccupied(next, gs, myId)
              THEN pushUnmarked(i + 1, current, Append(stack, next), visited, gs, myId)
              ELSE pushUnmarked(i + 1, current, stack, visited, gs, myId)

RECURSIVE pushNeighbours(_, _, _, _, _, _)
pushNeighbours(i, current, stack, visited, gs, myId) ==
  IF i > Len(possibleMoves)
    THEN [stack |-> stack, visited |-> visited]
    ELSE LET next == getNextCoord(current, possibleMoves[i], gs.wallMode)
         IN IF next \notin visited /\ ~isOccupied(next, gs, myId)
              THEN pushNeighbours(i + 1, current, Append(stack, next),
                                  visited \cup {next}, gs, myId)
              ELSE pushNeighbours(i + 1, current, stack, visited, gs, myId)

\* One turn of the while loop; done is set when the function has returned,
\* and popped lists the cells taken off the stack so far.
floodStep(st, gs, myId, limit) ==
  IF st.done
    THEN st
    ELSE IF Len(st.stack) = 0
      THEN [st EXCEPT !.done = TRUE, !.result = st.count]
      ELSE LET current == st.stack[Len(st.stack)]
               rest == SubSeq(st.stack, 1, Len(st.stack) - 1)
           IN IF st.count + 1 >= limit
                THEN [st EXCEPT !.done = TRUE, !.result = limit,
                                !.popped = Append(st.popped, current)]
                ELSE LET s == pushNeighbours(1, current, rest, st.visited, gs, myId)
                     IN [stack |-> s.stack, visited |-> s.visited,
                         count |-> st.count + 1, done |-> FALSE, result |-> 0,
                         popped |-> Append(st.popped, current)]

\* n turns of the loop, the first half of them and then the rest.
RECURSIVE floodLoop(_, _, _, _, _)
floodLoop(st, n, gs, myId, limit) ==
  IF n <= 1
    THEN floodStep(st, gs, myId, limit)
    ELSE The({floodLoop(half, n - n \div 2, gs, myId, limit) :
                half \in {floodLoop(st, n \div 2, gs, myId, limit)}})

\* Every turn counts one tile, so the loop returns within limit turns, and
\* one more turn finds the stack empty.
floodRun(startPos, gs, myId, limit) ==
  The({floodLoop(st, limit + 1, gs, myId, limit) :
         st \in {[stack |-> <<startPos>>, visited |-> {startPos}, count |-> 0,
                  done |-> FALSE, result |-> 0, popped |-> <<>>]}})

countAccessibleTiles(startPos, gs, myId, limit) ==
  floodRun(startPos, gs, myId, limit).result

(***************************************************************************)
(* findPathToClosestFood: BFS from the head's neighbours, each entry       *)
(* carrying the first move that led to it; an entry beyond the depth cap   *)
(* is tested for food but not expanded.                                    *)
(***************************************************************************)
SearchDepthCap == 50

NoPath == [firstMove |-> Null, dist |-> 0]

RECURSIVE seedNeighbours(_, _, _, _, _, _)
seedNeighbours(i, startPos, queue, visited, gs, myId) ==
  IF i > Len(possibleMoves)
    THEN [queue |-> queue, visited |-> visited]
    ELSE LET next == getNextCoord(startPos, possibleMoves[i], gs.wallMode)
         IN IF ~isOccupied(next, gs, myId)
              THEN seedNeighbours(i + 1, startPos,
                     Append(queue, [pos |-> next, firstMove |-> possibleMoves[i], dist |-> 1]),
                     visited \cup {next}, gs, myId)
              ELSE seedNeighbours(i + 1, startPos, queue, visited, gs, myId)

RECURSIVE enqueueNeighbours(_, _, _, _, _, _)
enqueueNeighbours(i, entry, queue, visited, gs, myId) ==
  IF i > Len(possibleMoves)
    THEN [queue |-> queue, visited |-> visited]
    ELSE LET next == getNextCoord(entry.pos, possibleMoves[i], gs.wallMode)
         IN IF next \notin visited /\ ~isOccupied(next, gs, myId)
              THEN enqueueNeighbours(i + 1, entry,
                     Append(queue, [pos |-> next, firstMove |-> entry.firstMove,
                                    dist |-> entry.dist + 1]),
                     visited \cup {next}, gs, myId)
              ELSE enqueueNeighbours(i + 1, entry, queue, visited, gs, myId)

\* The turn that takes the newest entry of the queue instead of the oldest.
lifoStep(st, gs, myId) ==
  IF st.done
    THEN st
    ELSE IF Len(st.queue) = 0
      THEN [st EXCEPT !.done = TRUE]
      ELSE LET entry == st.queue[Len(st.queue)]
               rest == SubSeq(st.queue, 1, Len(st.queue) - 1)
           IN IF \E k \in 1..Len(gs.food) : gs.food[k] = entry.pos
                THEN [st EXCEPT !.done = TRUE,
                                !.result = [firstMove |-> entry.firstMove,
                                            dist |-> entry.dist],
                                !.shifted = Append(st.shifted, entry.pos)]
                ELSE IF entry.dist > SearchDepthCap
                  THEN [st EXCEPT !.queue = rest,
                                  !.shifted = Append(st.shifted, entry.pos)]
                  ELSE LET s == enqueueNeighbours(1, entry, rest, st.visited, gs, myId)
                       IN [queue |-> s.queue, visited |-> s.visited,
                           done |-> FALSE, result |-> NoPath,
                           shifted |-> Append(st.shifted, entry.pos)]

\* One turn of the while loop; done is set when the function has returned,
\* and shifted lists the cells of the entries taken off the queue so far.
bfsStep(st, gs, myId) ==
  IF st.done
    THEN st
    ELSE IF Len(st.queue) = 0
      THEN [st EXCEPT !.done = TRUE]
      ELSE LET entry == Head(st.queue)
               rest == Tail(st.queue)
           IN IF \E k \in 1..Len(gs.food) : gs.food[k] = entry.pos
                THEN [st EXCEPT !.done = TRUE,
                                !.result = [firstMove |-> entry.firstMove,
                                            dist |-> entry.dist],
                                !.shifted = Append(st.shifted, entry.pos)]
                ELSE IF entry.dist > SearchDepthCap
                  THEN [st EXCEPT !.queue = rest,
                                  !.shifted = Append(st.shifted, entry.pos)]
                  ELSE LET s == enqueueNeighbours(1, entry, rest, st.visited, gs, myId)
                       IN [queue |-> s.queue, visited |-> s.visited,
                           done |-> FALSE, result |-> NoPath,
                           shifted |-> Append(st.shifted, entry.pos)]

\* n turns of the loop, the first half of them and then the rest.
RECURSIVE bfsLoop(_, _, _, _)
bfsLoop(st, n, gs, myId) ==
  IF n <= 1
    THEN bfsStep(st, gs, myId)
    ELSE The({bfsLoop(half, n - n \div 2, gs, myId) :
                half \in {bfsLoop(st, n \div 2, gs, myId)}})

\* Every turn shifts one entry off the queue, and after the entries of the
\* head's neighbours a cell is queued once, so the loop ends within that many
\* turns and one more.
bfsRun(startPos, gs, myId) ==
  The({bfsLoop(st, Len(possibleMoves) + GRID_WIDTH * GRID_HEIGHT + 1, gs, myId) :
         st \in {[queue |-> s.queue, visited |-> s.visited, done |-> FALSE,
                  result |-> NoPath, shifted |-> <<>>] :
                   s \in {seedNeighbours(1, startPos, <<>>, {}, gs, myId)}}})

findPathToClosestFood(startPos, gs, myId) == bfsRun(startPos, gs, myId).result

(***************************************************************************)
(* Loops that keep the first strictly better candidate: keys[i] is the     *)
(* value computed for the i-th candidate; the result is its index.         *)
(* minDist = Infinity and maxSpace = -1 are the "no candidate yet" case.   *)
(***************************************************************************)
RECURSIVE firstMinLoop(_, _, _)
firstMinLoop(keys, i, best) ==
  IF i > Len(keys)
    THEN best
    ELSE IF best = 0 \/ keys[i] < keys[best]
      THEN firstMinLoop(keys, i + 1, i)
      ELSE firstMinLoop(keys, i + 1, best)

firstMin(keys) == firstMinLoop(keys, 1, 0)

RECURSIVE firstMaxLoop(_, _, _)
firstMaxLoop(keys, i, best) ==
  IF i > Len(keys)
    THEN best
    ELSE IF (best = 0 /\ keys[i] > -1) \/ (best # 0 /\ keys[i] > keys[best])
      THEN firstMaxLoop(keys, i + 1, i)
      ELSE firstMaxLoop(keys, i + 1, best)

firstMax(keys) == firstMaxLoop(keys, 1, 0)

(***************************************************************************)
(* The distance of the steering loops: Manhattan, each axis wrapped when   *)
(* the topology wraps.                                                     *)
(***************************************************************************)
\* The distance without the wrap.
rawSteerDist(target, nextPos, wallMode) ==
  Abs(target.x - nextPos.x) + Abs(target.y - nextPos.y)

steerDist(target, nextPos, wallMode) ==
  LET dx == Abs(target.x - nextPos.x)
      dy == Abs(target.y - nextPos.y)
  IN IF ~wallMode
       THEN Min(dx, GRID_WIDTH - dx) + Min(dy, GRID_HEIGHT - dy)
       ELSE dx + dy

(***************************************************************************)
(* decideNPCMove, step by step.                                            *)
(***************************************************************************)
EasyPromoteLen == 20
MediumPromoteLen == 30
MediumSpaceCap == 20
SurvivalSpaceCap == 100
KeepHeadingChance == 60

\* The promotion applied twice over: a long snake of the lowest tier reaches
\* the top tier.
cascadingDifficulty(npc, player) ==
  IF Len(player.snake) > MediumPromoteLen /\ npc.difficulty \in {"easy", "medium"}
    THEN "hard"
    ELSE IF Len(player.snake) > EasyPromoteLen /\ npc.difficulty = "easy"
      THEN "medium"
      ELSE npc.difficulty

\* Dynamic difficulty: the tier used for this decision.
effectiveDifficulty(npc, player) ==
  IF Len(player.snake) > EasyPromoteLen /\ npc.difficulty = "easy"
    THEN "medium"
    ELSE IF Len(player.snake) > MediumPromoteLen /\ npc.difficulty = "medium"
      THEN "hard"
      ELSE npc.difficulty

\* The moves without the filter.
allMovesOf(head, gs, myId) == possibleMoves

\* 2. the immediately safe moves, in the order up, down, left, right.
safeMovesOf(head, gs, myId) ==
  SelectSeq(possibleMoves, LAMBDA move : isMoveImmediatelySafe(head, move, gs, myId))

\* The food path followed without the space check.
followPathUnchecked(pathResult, settings, head, safeMoves, gs, player, myId) ==
  IF pathResult.firstMove # Null /\ pathResult.firstMove \in SeqSet(safeMoves)
    THEN pathResult.firstMove
    ELSE Null

\* The food path with half the snake's length rounded down.
followPathHalved(pathResult, settings, head, safeMoves, gs, player, myId) ==
  IF pathResult.firstMove # Null /\ pathResult.firstMove \in SeqSet(safeMoves)
    THEN LET bestMove == pathResult.firstMove
             nextPos == getNextCoord(head, bestMove, gs.wallMode)
         IN IF settings.safetyCheck
              THEN LET availableSpace ==
                         countAccessibleTiles(nextPos, gs, myId, Len(player.snake))
                   IN IF availableSpace >= Len(player.snake) THEN bestMove ELSE Null
              ELSE LET space == countAccessibleTiles(nextPos, gs, myId, MediumSpaceCap)
                   IN IF space >= Len(player.snake) \div 2 THEN bestMove ELSE Null
    ELSE Null

\* 4.A the food path, once found, and its space check; Null means "fall
\* through".
followPath(pathResult, settings, head, safeMoves, gs, player, myId) ==
  IF pathResult.firstMove # Null /\ pathResult.firstMove \in SeqSet(safeMoves)
    THEN LET bestMove == pathResult.firstMove
             nextPos == getNextCoord(head, bestMove, gs.wallMode)
         IN IF settings.safetyCheck
              THEN LET availableSpace ==
                         countAccessibleTiles(nextPos, gs, myId, Len(player.snake))
                   IN IF availableSpace >= Len(player.snake) THEN bestMove ELSE Null
              ELSE LET space == countAccessibleTiles(nextPos, gs, myId, MediumSpaceCap)
                   IN IF 2 * space >= Len(player.snake) THEN bestMove ELSE Null
    ELSE Null

foodPathMove(settings, head, safeMoves, gs, player, myId) ==
  The({followPath(pathResult, settings, head, safeMoves, gs, player, myId) :
         pathResult \in {findPathToClosestFood(head, gs, myId)}})

\* The survival mode without the tail chase.
survivalChoiceRoomiest(spaces, head, safeMoves, gs, player) ==
  IF firstMax(spaces) = 0 THEN Null ELSE safeMoves[firstMax(spaces)]

\* 4.B survival mode, spaces[i] being the space counted behind safeMoves[i]:
\* the most open move, else the move nearest the tail.
survivalChoice(spaces, head, safeMoves, gs, player) ==
  LET bestIdx == firstMax(spaces)
      bestSurvivalMove == IF bestIdx = 0 THEN Null ELSE safeMoves[bestIdx]
      maxSpace == IF bestIdx = 0 THEN -1 ELSE spaces[bestIdx]
      tail == player.snake[Len(player.snake)]
      tailDists == [i \in 1..Len(safeMoves) |->
                      steerDist(tail, getNextCoord(head, safeMoves[i], gs.wallMode),
                                gs.wallMode)]
      tailIdx == firstMin(tailDists)
  IN IF maxSpace >= Len(player.snake)
       THEN bestSurvivalMove
       ELSE IF tailIdx # 0 THEN safeMoves[tailIdx] ELSE bestSurvivalMove

survivalMove(head, safeMoves, gs, player, myId) ==
  The({survivalChoice(spaces, head, safeMoves, gs, player) :
         spaces \in {[i \in 1..Len(safeMoves) |->
                        countAccessibleTiles(getNextCoord(head, safeMoves[i], gs.wallMode),
                                             gs, myId, SurvivalSpaceCap)]}})

\* 5. the target of the hot/cold steering: the first food of least raw
\* Manhattan distance from the head; 0 when there is no food.
targetFoodIndex(head, gs) ==
  firstMin([k \in 1..Len(gs.food) |->
              Abs(gs.food[k].x - head.x) + Abs(gs.food[k].y - head.y)])

hotColdMove(head, safeMoves, gs) ==
  LET t == targetFoodIndex(head, gs)
  IN IF t = 0
       THEN safeMoves[1]
       ELSE LET dists == [i \in 1..Len(safeMoves) |->
                            steerDist(gs.food[t],
                                      getNextCoord(head, safeMoves[i], gs.wallMode),
                                      gs.wallMode)]
            IN safeMoves[firstMin(dists)]

\* Math.floor(Math.random() * n), the draw in hundredths.
randomIndex(r, n) == (r * n) \div 100

\* The result of a call: the direction returned (or Null), the agent's counter
\* after the call, and how many Math.random() draws the call consumed from rs.
Decision(move, delay, used) == [move |-> move, decisionDelay |-> delay, used |-> used]

\* The strategy with the survival mode at every tier that looks for a path.
strategyMoveSurviving(pathMove, settings, safeMoves, gs, player, myId, rs) ==
  LET delay == settings.reactionDelayFrames
      head == player.snake[1]
      currentDir == player.direction
  IN IF pathMove # Null
       THEN Decision(pathMove, delay, 1)
       ELSE IF settings.usePathfinding
         THEN Decision(survivalMove(head, safeMoves, gs, player, myId), delay, 1)
         ELSE IF currentDir \in SeqSet(safeMoves)
           THEN IF rs[2] < KeepHeadingChance
                  THEN Decision(currentDir, delay, 2)
                  ELSE Decision(hotColdMove(head, safeMoves, gs), delay, 2)
           ELSE Decision(hotColdMove(head, safeMoves, gs), delay, 1)

\* The strategy keeping the current heading without asking whether it is safe.
strategyMoveHeadstrong(pathMove, settings, safeMoves, gs, player, myId, rs) ==
  LET delay == settings.reactionDelayFrames
      head == player.snake[1]
      currentDir == player.direction
  IN IF pathMove # Null
       THEN Decision(pathMove, delay, 1)
       ELSE IF settings.usePathfinding /\ settings.safetyCheck
         THEN Decision(survivalMove(head, safeMoves, gs, player, myId), delay, 1)
         ELSE IF ~settings.usePathfinding
           THEN IF rs[2] < KeepHeadingChance
                  THEN Decision(currentDir, delay, 2)
                  ELSE Decision(hotColdMove(head, safeMoves, gs), delay, 2)
           ELSE Decision(hotColdMove(head, safeMoves, gs), delay, 1)

\* 4. and 5. the strategy, pathMove being what the food path gave.
strategyMove(pathMove, settings, safeMoves, gs, player, myId, rs) ==
  LET delay == settings.reactionDelayFrames
      head == player.snake[1]
      currentDir == player.direction
  IN IF pathMove # Null
       THEN Decision(pathMove, delay, 1)
       ELSE IF settings.usePathfinding /\ settings.safetyCheck
         THEN Decision(survivalMove(head, safeMoves, gs, player, myId), delay, 1)
         ELSE IF ~settings.usePathfinding /\ currentDir \in SeqSet(safeMoves)
           THEN IF rs[2] < KeepHeadingChance
                  THEN Decision(currentDir, delay, 2)
                  ELSE Decision(hotColdMove(head, safeMoves, gs), delay, 2)
           ELSE Decision(hotColdMove(head, safeMoves, gs), delay, 1)

\* 2. to 5. the decision among the safe moves.
moveAmong(safeMoves, settings, gs, player, myId, rs) ==
  LET delay == settings.reactionDelayFrames
      head == player.snake[1]
  IN IF Len(safeMoves) = 0
       THEN Decision(Null, delay, 0)
       ELSE IF rs[1] < settings.errorChance
         THEN Decision(safeMoves[randomIndex(rs[2], Len(safeMoves)) + 1], delay, 2)
         ELSE The({strategyMove(pathMove, settings, safeMoves, gs, player, myId, rs) :
                     pathMove \in {IF settings.usePathfinding
                                     THEN foodPathMove(settings, head, safeMoves, gs,
                                                       player, myId)
                                     ELSE Null}})

\* The counter left as it is.
reactionDelayStuck(npc) == Decision(Null, npc.decisionDelay, 0)

\* The counter taken down by two.
reactionDelayTwice(npc) == Decision(Null, npc.decisionDelay - 2, 0)

\* 1. the counter is positive: one frame less to wait, nothing proposed.
reactionDelay(npc) == Decision(Null, npc.decisionDelay - 1, 0)

decideNPCMove(npc, gs, player, myId, rs) ==
  IF ~player.isAlive \/ Len(player.snake) = 0
    THEN Decision(Null, npc.decisionDelay, 0)
    ELSE
      LET settings == getDifficultySettings(effectiveDifficulty(npc, player))
      IN IF npc.decisionDelay > 0
           THEN reactionDelay(npc)
           ELSE The({moveAmong(safeMoves, settings, gs, player, myId, rs) :
                       safeMoves \in {safeMovesOf(player.snake[1], gs, myId)}})

(***************************************************************************)
(* processNPCInputs: every living bot with an agent decides, in the order  *)
(* of Object.values(gameState.players); a proposed direction that is not   *)
(* the opposite of the current one becomes nextDirection.                  *)
(***************************************************************************)
opposites(d) ==
  CASE d = "up" -> "down"
    [] d = "down" -> "up"
    [] d = "left" -> "right"
    [] d = "right" -> "left"

Skipped == "skipped"

\* The write without the reversal check.
commitAnyDirection(gs, id, direction) ==
  IF direction # Null
    THEN [gs EXCEPT !.players[id].nextDirection = direction]
    ELSE gs

\* The write that also turns the snake at once.
commitDirectionAndTurn(gs, id, direction) ==
  IF direction # Null /\ opposites(direction) # gs.players[id].direction
    THEN [gs EXCEPT !.players[id].nextDirection = direction,
                    !.players[id].direction = direction]
    ELSE gs

\* The write that also moves the snake one step at once.
commitDirectionAndStep(gs, id, direction) ==
  IF direction # Null /\ opposites(direction) # gs.players[id].direction
    THEN [gs EXCEPT !.players[id].nextDirection = direction,
                    !.players[id].snake =
                       <<getNextCoord(@[1], direction, gs.wallMode)>>
                         \o SubSeq(@, 1, Len(@) - 1)]
    ELSE gs

\* Validate direction change (cannot reverse).
commitDirection(gs, id, direction) ==
  IF direction # Null /\ opposites(direction) # gs.players[id].direction
    THEN [gs EXCEPT !.players[id].nextDirection = direction]
    ELSE gs

RECURSIVE processLoop(_, _, _, _, _, _)
processLoop(order, gs, agents, rs, used, proposed) ==
  IF Len(order) = 0
    THEN [gameState |-> gs, npcs |-> agents, used |-> used, proposal |-> proposed]
    ELSE
      LET id == Head(order)
          player == gs.players[id]
      IN IF player.type # "npc" \/ ~player.isAlive \/ id \notin DOMAIN agents
           THEN processLoop(Tail(order), gs, agents, rs, used, proposed)
           ELSE
             The({processLoop(Tail(order), commitDirection(gs, id, d.move),
                              [agents EXCEPT ![id].decisionDelay = d.decisionDelay],
                              rs, used + d.used, [proposed EXCEPT ![id] = d.move]) :
                    d \in {decideNPCMove(agents[id], gs, player, id,
                                         SubSeq(rs, used + 1, Len(rs)))}})

RECURSIVE ascending(_)
ascending(S) ==
  IF S = {} THEN <<>>
  ELSE LET m == CHOOSE a \in S : \A b \in S : a <= b
       IN <<m>> \o ascending(S \ {m})

processNPCInputs(gs, agents, rs) ==
  processLoop(ascending(DOMAIN gs.players), gs, agents, rs, 0,
              [id \in DOMAIN gs.players |-> Skipped])

\* The same loop over the players taken in a given order, Math.random()
\* giving each bot the draws of drawsOf[id] whenever its turn comes.
RECURSIVE processEach(_, _, _, _, _, _)
processEach(order, gs, agents, drawsOf, drawn, proposed) ==
  IF Len(order) = 0
    THEN [gameState |-> gs, npcs |-> agents, rs |-> drawn, proposal |-> proposed]
    ELSE
      LET id == Head(order)
          player == gs.players[id]
      IN IF player.type # "npc" \/ ~player.isAlive \/ id \notin DOMAIN agents
           THEN processEach(Tail(order), gs, agents, drawsOf, drawn, proposed)
           ELSE
             The({processEach(Tail(order), commitDirection(gs, id, d.move),
                              [agents EXCEPT ![id].decisionDelay = d.decisionDelay],
                              drawsOf, drawn \o SubSeq(drawsOf[id], 1, d.used),
                              [proposed EXCEPT ![id] = d.move]) :
                    d \in {decideNPCMove(agents[id], gs, player, id, drawsOf[id])}})

(***************************************************************************)
(* The states a tick can start from.  The game loop, the movement of the   *)
(* snakes and the placing of food are outside npcAI.js, so the model       *)
(* starts a tick from each game state of a few families of boards.         *)
(***************************************************************************)
Player(type, isAlive, snake, direction, nextDirection) ==
  [type |-> type, isAlive |-> isAlive, snake |-> snake,
   direction |-> direction, nextDirection |-> nextDirection]

FreeCells(players) ==
  Cells \ UNION {SeqSet(players[id].snake) : id \in DOMAIN players}

\* The snakes of n segments, head first, with the head on one of heads: each
\* segment one step from the one before it, all on distinct cells of the grid.
RECURSIVE SnakesOfLen(_, _, _)
SnakesOfLen(n, heads, wallMode) ==
  IF n = 1
    THEN {<<c>> : c \in heads}
    ELSE UNION {
           {Append(s, getNextCoord(s[Len(s)], d, wallMode)) :
              d \in {e \in Directions :
                       LET c == getNextCoord(s[Len(s)], e, wallMode)
                       IN c \in Cells /\ c \notin SeqSet(s)}} :
           s \in SnakesOfLen(n - 1, heads, wallMode)}

\* The headings a snake can have: the step from its second segment to its
\* head, any direction for a snake of one segment.
Headings(snake, wallMode) ==
  IF Len(snake) = 1
    THEN Directions
    ELSE {d \in Directions : getNextCoord(snake[2], d, wallMode) = snake[1]}

\* The food arrays of k items on distinct free cells.
FoodsOfLen(players, k) ==
  CASE k = 0 -> {<<>>}
    [] k = 1 -> {<<f>> : f \in FreeCells(players)}
    [] OTHER -> {<<f, g>> : f \in FreeCells(players),
                            g \in FreeCells(players)} \ {<<f, f>> : f \in Cells}

\* Small boards: one bot whose head is on a corner, an edge or an inner cell.
HeadCells == {Pos(0, 0), Pos(1, 0), Pos(1, 1)} \cap Cells

SmallBoard(extraWidth, lens, dirs, foodCounts) ==
  /\ GRID_WIDTH = SmallW + extraWidth
  /\ GRID_HEIGHT = SmallH
  /\ \E wallMode \in BOOLEAN, n \in lens :
       \E snake \in SnakesOfLen(n, HeadCells, wallMode) :
         \E direction \in Headings(snake, wallMode) \cap dirs :
           LET players == 1 :> Player("npc", TRUE, snake, direction, direction)
           IN \E food \in UNION {FoodsOfLen(players, k) : k \in foodCounts} :
                gameState = [wallMode |-> wallMode, players |-> players, food |-> food]

\* A bot of up to MaxSnakeLen segments, with no food or one food.
InitSmall ==
  /\ SmallBoard(0, 1..MaxSnakeLen, Directions, {0, 1})
  /\ \E difficulty \in Difficulties : npcs = 1 :> createNPC(difficulty)

\* A bot of the lowest tier, of one segment heading up, with one or two foods
\* on a board one column wider.
InitTwoFood ==
  /\ SmallBoard(1, {1}, {"up"}, {1, 2})
  /\ npcs = 1 :> createNPC("easy")

\* Crowded boards: a bot of one segment and a second player of two segments
\* in the far corner, which is a human, a dead bot, a living bot that has no
\* agent, or a living bot with an agent.
PlayerKinds == {"human", "deadBot", "agentlessBot", "bot"}

CrowdBoard(foods, difficulties) ==
  /\ GRID_WIDTH = SmallW
  /\ GRID_HEIGHT = SmallH
  /\ \E wallMode \in BOOLEAN, head \in HeadCells, direction \in Directions,
        kind \in PlayerKinds :
       LET other == <<Pos(GRID_WIDTH - 1, GRID_HEIGHT - 1),
                      Pos(GRID_WIDTH - 1, GRID_HEIGHT - 2)>>
           players ==
             (1 :> Player("npc", TRUE, <<head>>, direction, direction))
             @@ (2 :> Player(IF kind = "human" THEN "human" ELSE "npc",
                             kind # "deadBot", other, "down", "down"))
       IN /\ head \notin SeqSet(other)
          /\ \E food \in foods :
               gameState = [wallMode |-> wallMode, players |-> players, food |-> food]
          /\ \E difficulty \in difficulties :
               npcs = (1 :> createNPC(difficulty))
                      @@ (CASE kind = "deadBot" ->
                                 2 :> [createNPC("easy") EXCEPT !.decisionDelay = 1]
                            [] kind = "bot" -> 2 :> createNPC("hard")
                            [] OTHER -> <<>>)

InitCrowd == CrowdBoard({<<>>, <<Pos(0, GRID_HEIGHT - 1)>>}, Difficulties)

\* Long snakes: a bot lying along the rows of the board, row after row in
\* alternating direction, its tail in the corner (0, 0); the lengths are those
\* around the promotion thresholds, and the length that fills the board.
\* There is no food, one food in the last cell of the last row, or a food two
\* cells ahead of the head and another next to the last cell.
rowByRow(i) ==
  LET y == i \div GRID_WIDTH
      c == i % GRID_WIDTH
  IN Pos(IF y % 2 = 0 THEN c ELSE GRID_WIDTH - 1 - c, y)

longSnake(len) == [j \in 1..len |-> rowByRow(len - j)]

LongLens ==
  {EasyPromoteLen, EasyPromoteLen + 1, MediumPromoteLen, MediumPromoteLen + 1,
   GRID_WIDTH * GRID_HEIGHT}

InitLong ==
  /\ GRID_WIDTH = LongW
  /\ GRID_HEIGHT = LongH
  /\ \E wallMode \in BOOLEAN, len \in LongLens :
       \E direction \in Headings(longSnake(len), wallMode) :
         LET players == 1 :> Player("npc", TRUE, longSnake(len), direction, direction)
         IN \E food \in {<<>>} \cup
                        {<<f>> : f \in {rowByRow(GRID_WIDTH * GRID_HEIGHT - 1)}
                                         \cap FreeCells(players)} \cup
                        {<<f, g>> : f \in {rowByRow(len + 1)} \cap FreeCells(players),
                                    g \in {rowByRow(GRID_WIDTH * GRID_HEIGHT - 2)}
                                         \cap FreeCells(players)} :
              gameState = [wallMode |-> wallMode, players |-> players, food |-> food]
  /\ \E difficulty \in Difficulties : npcs = 1 :> createNPC(difficulty)

\* A long snake of the top tier on a wrapping board, moved sideways so that
\* its tail is nearer the head across the seam than along the rows.
shifted(snake, dx) ==
  [j \in 1..Len(snake) |-> Pos((snake[j].x + dx) % GRID_WIDTH, snake[j].y)]

InitShifted ==
  /\ GRID_WIDTH = LongW
  /\ GRID_HEIGHT = LongH
  /\ \E len \in {MediumPromoteLen, MediumPromoteLen + 1} :
       \E snake \in {shifted(longSnake(len), GRID_WIDTH - 2)} :
         \E direction \in Headings(snake, FALSE) :
           gameState = [wallMode |-> FALSE,
                        players |-> 1 :> Player("npc", TRUE, snake, direction, direction),
                        food |-> <<>>]
  /\ \E difficulty \in {"medium", "hard"} : npcs = 1 :> createNPC(difficulty)

\* A snake of twice the cap of the middle tier's space check, or one segment
\* more, lying along the rows of a board two cells wider and higher than that
\* of the long snakes, with room for more than the cap left over.  There is
\* no food, or one or two foods among the cell ahead of the head, the far
\* end of the head's row and of the row below, the first cell of the last
\* row and the cell of the last row one column behind the head.
HugeLens == {2 * MediumSpaceCap, 2 * MediumSpaceCap + 1}

HugeFoods(head) ==
  {Pos(head.x + 1, head.y), Pos(GRID_WIDTH - 1, head.y), Pos(GRID_WIDTH - 1, head.y + 1),
   Pos(0, GRID_HEIGHT - 1), Pos(head.x - 1, GRID_HEIGHT - 1)}

InitHuge ==
  /\ GRID_WIDTH = LongW + 2
  /\ GRID_HEIGHT = LongH + 2
  /\ \E wallMode \in BOOLEAN, len \in HugeLens :
       \E direction \in Headings(longSnake(len), wallMode) :
         LET players == 1 :> Player("npc", TRUE, longSnake(len), direction, direction)
             foods == HugeFoods(longSnake(len)[1]) \cap FreeCells(players)
         IN \E food \in {<<>>} \cup {<<f>> : f \in foods}
                        \cup ({<<f, g>> : f \in foods, g \in foods}
                              \ {<<f, f>> : f \in foods}) :
              gameState = [wallMode |-> wallMode, players |-> players, food |-> food]
  /\ \E difficulty \in Difficulties : npcs = 1 :> createNPC(difficulty)

\* A snake longer than the cap of the survival flood fill, on a walled board
\* of three rows: the head at (1, 0), the body down to row 1, right along it,
\* down to row 2 and back to the tail at (1, 2).  Left of the head the three
\* cells of column 0 are closed in; right of it lies the rest of the board,
\* which is wide enough to hold the snake.
giantHalf == SurvivalSpaceCap \div 2

giantSnake ==
  <<Pos(1, 0)>> \o [j \in 1..giantHalf |-> Pos(j, 1)]
                \o [j \in 1..giantHalf |-> Pos(giantHalf + 1 - j, 2)]

InitGiant ==
  /\ GRID_WIDTH = (4 * giantHalf + 5) \div 3 + 1
  /\ GRID_HEIGHT = 3
  /\ gameState = [wallMode |-> TRUE,
                  players |-> 1 :> Player("npc", TRUE, giantSnake, "up", "up"),
                  food |-> <<>>]
  /\ npcs = 1 :> createNPC("hard")

\* A walled corridor of one row, the bot at its left end and one food at or
\* just beyond the depth cap of the pathfinder.
InitCorridor ==
  /\ GRID_WIDTH = SearchDepthCap + 3
  /\ GRID_HEIGHT = 1
  /\ \E x \in SearchDepthCap..(SearchDepthCap + 2) :
       gameState = [wallMode |-> TRUE,
                    players |-> 1 :> Player("npc", TRUE, <<Pos(0, 0)>>, "right", "right"),
                    food |-> <<Pos(x, 0)>>]
  /\ npcs = 1 :> createNPC("hard")

\* A wrapping board two columns wide, where the cell left of a cell is the
\* cell right of it: a bot of one segment and one food.
InitNarrow ==
  /\ GRID_WIDTH = 2
  /\ GRID_HEIGHT = SmallH
  /\ \E head \in HeadCells, direction \in Directions :
       LET players == 1 :> Player("npc", TRUE, <<head>>, direction, direction)
       IN \E food \in FoodsOfLen(players, 1) :
            gameState = [wallMode |-> FALSE, players |-> players, food |-> food]
  /\ npcs = 1 :> createNPC("hard")

\* The scenario of the specification: a walled board of 10 by 10, a top-tier
\* bot of one segment at (5, 5), one food at (5, 0), nothing else.
InitScenario ==
  /\ GRID_WIDTH = 10
  /\ GRID_HEIGHT = 10
  /\ \E direction \in Directions :
       gameState = [wallMode |-> TRUE,
                    players |-> 1 :> Player("npc", TRUE, <<Pos(5, 5)>>, direction, direction),
                    food |-> <<Pos(5, 0)>>]
  /\ npcs = 1 :> createNPC("hard")

NoProbe == [fn |-> "none"]

InitRest ==
  /\ call = "init"
  /\ rand = <<>>
  /\ proposal = [id \in DOMAIN gameState.players |-> Skipped]
  /\ history = <<>>
  /\ probe = NoProbe

Init ==
  /\ \/ InitSmall
     \/ InitTwoFood
     \/ InitCrowd
     \/ InitLong
     \/ InitGiant
  /\ InitRest

(***************************************************************************)
(* A tick: the game loop calls processNPCInputs(gameState, npcs).  A tick  *)
(* is named by the Math.random() draws it consumed.                        *)
(***************************************************************************)
DrawsPerDecision == 2

PadDraws(prefix, n) ==
  IF Len(prefix) >= n THEN prefix ELSE prefix \o [i \in 1..(n - Len(prefix)) |-> 0]

\* The ticks that can follow: each is the outcome of processNPCInputs under a
\* sequence of draws, cut to the draws the tick consumed.
RECURSIVE TickOutcomes(_, _, _)
TickOutcomes(gs, agents, prefix) ==
  The({IF out.used <= Len(prefix)
         THEN {[out |-> out, rs |-> SubSeq(prefix, 1, out.used)]}
         ELSE UNION {TickOutcomes(gs, agents, Append(prefix, r)) : r \in RandomDraws} :
         out \in {processNPCInputs(gs, agents,
                     PadDraws(prefix, DrawsPerDecision * Cardinality(DOMAIN agents)))}})

Snapshot == [gameState |-> gameState, npcs |-> npcs, proposal |-> proposal, rand |-> rand]

Commit(o, name) ==
  /\ gameState' = o.out.gameState
  /\ npcs' = o.out.npcs
  /\ rand' = o.rs
  /\ proposal' = o.out.proposal
  /\ history' = <<Snapshot>> \o history
  /\ call' = name
  /\ UNCHANGED <<GRID_WIDTH, GRID_HEIGHT, probe>>

Tick ==
  /\ call = "init"
  /\ probe = NoProbe
  /\ \E o \in TickOutcomes(gameState, npcs, <<>>) : Commit(o, "tick")

\* processNPCInputs called a second time, Math.random() seeded as for the
\* first call: the draws are those of the first call, then any.
Retick ==
  /\ call = "tick"
  /\ \E o \in TickOutcomes(gameState, npcs, rand) : Commit(o, "retick")

\* A tick that takes the players in some order, each bot with draws of its
\* own.
\* The draws of one bot: the error fires or not, then the first or a later
\* safe move, the heading kept or not.
OrderDraws == {0, 30} \X {10, 80}

Orders(S) ==
  {[i \in 1..Cardinality(S) |-> f[ascending(S)[i]]] : f \in Permutations(S)}

TickInOrder ==
  /\ call = "init"
  /\ probe = NoProbe
  /\ \E order \in Orders(DOMAIN gameState.players),
        drawsOf \in [DOMAIN npcs -> OrderDraws] :
       \E out \in {processEach(order, gameState, npcs, drawsOf, <<>>,
                                [id \in DOMAIN gameState.players |-> Skipped])} :
         /\ gameState' = out.gameState
         /\ npcs' = out.npcs
         /\ rand' = out.rs
         /\ proposal' = out.proposal
         /\ history' = <<Snapshot>> \o history
         /\ call' = "ordered"
         /\ probe' = [fn |-> "processNPCInputs", order |-> order, drawsOf |-> drawsOf]
  /\ UNCHANGED <<GRID_WIDTH, GRID_HEIGHT>>

\* A run of ticks, the game loop calling processNPCInputs tick after tick.
\* The run notes for each agent how many ticks in a row it was consulted and
\* held by the delay gate (waited), and the value the gate last reset its
\* counter to (due, -1 before the first reset).
Unseen == [ticks |-> 0,
           waited |-> [id \in DOMAIN npcs |-> 0],
           due |-> [id \in DOMAIN npcs |-> -1]]

Seen == IF probe = NoProbe THEN Unseen ELSE probe

IsConsulted(id) ==
  /\ id \in DOMAIN gameState.players
  /\ gameState.players[id].type = "npc"
  /\ gameState.players[id].isAlive

HoldDraws == {<<0, 10>>, <<30, 80>>}

TickOn ==
  /\ call \in {"init", "on"}
  /\ Seen.ticks < MaxTicks
  /\ \E drawsOf \in [DOMAIN npcs -> HoldDraws] :
       \E out \in {processEach(ascending(DOMAIN gameState.players), gameState, npcs,
                                drawsOf, <<>>,
                                [id \in DOMAIN gameState.players |-> Skipped])} :
         /\ gameState' = out.gameState
         /\ npcs' = out.npcs
         /\ rand' = out.rs
         /\ proposal' = out.proposal
         /\ history' = <<Snapshot>>
         /\ call' = "on"
         /\ probe' =
              [fn |-> "ticks",
               ticks |-> Seen.ticks + 1,
               waited |-> [id \in DOMAIN npcs |->
                             IF ~IsConsulted(id) THEN Seen.waited[id]
                             ELSE IF npcs[id].decisionDelay > 0
                               THEN Seen.waited[id] + 1
                               ELSE 0],
               due |-> [id \in DOMAIN npcs |->
                          IF IsConsulted(id) /\ npcs[id].decisionDelay = 0
                            THEN out.npcs[id].decisionDelay
                            ELSE Seen.due[id]]]
  /\ UNCHANGED <<GRID_WIDTH, GRID_HEIGHT>>

\* Between two ticks the game lets a snake at a promotion threshold grow by
\* one segment, the head moving on along the rows.
Grow ==
  /\ call = "on"
  /\ \E id \in DOMAIN gameState.players :
       LET len == Len(gameState.players[id].snake)
       IN /\ len \in {EasyPromoteLen, MediumPromoteLen}
          /\ gameState.players[id].snake = longSnake(len)
          /\ \E direction \in Headings(longSnake(len + 1), gameState.wallMode) :
               gameState' =
                 [gameState EXCEPT !.players[id].snake = longSnake(len + 1),
                                   !.players[id].direction = direction,
                                   !.food = <<>>]
  /\ UNCHANGED <<GRID_WIDTH, GRID_HEIGHT, npcs, call, rand, proposal, history, probe>>

(***************************************************************************)
(* Direct calls of the helpers.                                            *)
(***************************************************************************)
CallCountAccessibleTiles ==
  /\ probe = NoProbe
  /\ \E startPos \in Cells, limit \in 1..MaxLimit :
       \E run \in {floodRun(startPos, gameState, 1, limit)} :
         probe' = [fn |-> "countAccessibleTiles", startPos |-> startPos, limit |-> limit,
                   result |-> countAccessibleTiles(startPos, gameState, 1, limit),
                   returned |-> run.done, taken |-> run.popped]
  /\ UNCHANGED <<GRID_WIDTH, GRID_HEIGHT, gameState, npcs, call, rand, proposal, history>>

CallFindPathToClosestFood ==
  /\ probe = NoProbe
  /\ \E id \in DOMAIN gameState.players :
       /\ gameState.players[id].isAlive
       /\ \E run \in {bfsRun(gameState.players[id].snake[1], gameState, id)} :
            probe' = [fn |-> "findPathToClosestFood", id |-> id,
                      result |-> findPathToClosestFood(gameState.players[id].snake[1],
                                                       gameState, id),
                      returned |-> run.done, taken |-> run.shifted]
  /\ UNCHANGED <<GRID_WIDTH, GRID_HEIGHT, gameState, npcs, call, rand, proposal, history>>

(***************************************************************************)
(* Specifications.                                                         *)
(***************************************************************************)
\* One tick from each start state.
Next == Tick

Spec == Init /\ [][Next]_vars

\* Two calls of processNPCInputs in succession with the same draws.
InitTwice ==
  /\ \/ InitCrowd
     \/ InitLong
  /\ InitRest

NextTwice ==
  \/ Tick
  \/ Retick

SpecTwice == InitTwice /\ [][NextTwice]_vars

\* One tick of a bot decided at the top tier.
InitTop ==
  /\ \/ /\ SmallBoard(0, 1..MaxSnakeLen, Directions, {0, 1})
        /\ npcs = 1 :> createNPC("hard")
     \/ InitShifted
     \/ InitGiant
     \/ InitScenario
  /\ InitRest

NextTop == Tick

SpecTop == InitTop /\ [][NextTop]_vars

\* One tick of a bot that searches for a path: a small board with a bot of
\* the middle or the top tier, a long snake of any tier, a snake longer than
\* the survival cap, or the bot of the 10 by 10 scenario.
InitModes ==
  /\ \/ /\ InitSmall
        /\ npcs[1].difficulty \in {"medium", "hard"}
     \/ InitLong
     \/ InitShifted
     \/ InitGiant
     \/ InitScenario
  /\ InitRest

NextModes == Tick

SpecModes == InitModes /\ [][NextModes]_vars

\* One tick of a bot whose snake is about twice as long as the cap of the
\* middle tier's space check.
InitHalf ==
  /\ InitHuge
  /\ InitRest

NextHalf == Tick

SpecHalf == InitHalf /\ [][NextHalf]_vars

\* A run of ticks on a board with two players, or with a long snake that may
\* grow past a promotion threshold.
InitRun ==
  /\ \/ /\ CrowdBoard({<<>>}, Difficulties)
        /\ gameState.players[1].direction = "up"
     \/ /\ InitLong
        /\ Len(gameState.players[1].snake) \in {EasyPromoteLen, MediumPromoteLen}
        /\ gameState.food = <<>>
  /\ InitRest

NextRun ==
  \/ TickOn
  \/ Grow

SpecRun == InitRun /\ [][NextRun]_vars

\* One tick with the players taken in each order.
InitOrder ==
  /\ CrowdBoard({<<>>, <<Pos(0, GRID_HEIGHT - 1)>>}, {"easy", "hard"})
  /\ InitRest

NextOrder == TickInOrder

SpecOrder == InitOrder /\ [][NextOrder]_vars

\* countAccessibleTiles called on each board.
InitFlood ==
  /\ \/ /\ SmallBoard(0, 1..MaxSnakeLen, {"up", "left"}, {0})
        /\ npcs = 1 :> createNPC("hard")
     \/ CrowdBoard({<<>>}, {"hard"})
  /\ InitRest

NextFlood == CallCountAccessibleTiles

SpecFlood == InitFlood /\ [][NextFlood]_vars

\* findPathToClosestFood called on each board.
InitPath ==
  /\ \/ /\ SmallBoard(0, 1..MaxSnakeLen, {"up", "left"}, {1, 2})
        /\ npcs = 1 :> createNPC("hard")
     \/ CrowdBoard({<<Pos(0, GRID_HEIGHT - 1)>>}, {"hard"})
     \/ InitCorridor
     \/ InitNarrow
  /\ InitRest

NextPath == CallFindPathToClosestFood

SpecPath == InitPath /\ [][NextPath]_vars

(***************************************************************************)
(* Properties.  Before is the state the last tick started from; a player   *)
(* is consulted by a tick when it is a living bot that has an agent.       *)
(***************************************************************************)
Before == history[1]

Ticked == call = "tick"

Called == call \in {"tick", "retick"}

Consulted(id) ==
  /\ Before.gameState.players[id].type = "npc"
  /\ Before.gameState.players[id].isAlive
  /\ id \in DOMAIN Before.npcs

\* The consulted player whose decision took the first draws of the tick.
FirstConsulted(id) ==
  /\ Consulted(id)
  /\ \A other \in DOMAIN gameState.players : Consulted(other) => id <= other

KnownTiers == {"easy", "medium", "hard"}

\* C1: after a tick, a nextDirection the tick wrote is never the opposite of
\* the player's direction before the tick, and a player for whom the decision
\* proposed the opposite direction, or nothing, keeps its nextDirection.
C1_NoReversal ==
  Ticked =>
    \A id \in DOMAIN gameState.players :
      LET was == Before.gameState.players[id]
          now == gameState.players[id]
      IN /\ now.nextDirection # was.nextDirection
              => now.nextDirection # opposites(was.direction)
         /\ proposal[id] \in {Null, Skipped, opposites(was.direction)}
              => now.nextDirection = was.nextDirection
         /\ (proposal[id] \in Directions /\ proposal[id] # opposites(was.direction))
              => now.nextDirection = proposal[id]

\* A tick in which a bot's decision proposed the reverse of its direction, and
\* one in which an accepted proposal turned the bot.
C1_Witness ==
  /\ Ticked
  /\ \E id \in DOMAIN gameState.players :
       /\ Consulted(id)
       /\ proposal[id] = opposites(Before.gameState.players[id].direction)
       /\ gameState.players[id].nextDirection = Before.gameState.players[id].nextDirection

\* C2: at the effective top tier, when some safe move leads to a position
\* with reachable space of at least the snake's length, the move decided does
\* not lead to a position with less reachable space than the snake's length.
SpaceAfter(id, move) ==
  LET player == Before.gameState.players[id]
  IN countAccessibleTiles(getNextCoord(player.snake[1], move, Before.gameState.wallMode),
                          Before.gameState, id, Len(player.snake))

TopTier(id) ==
  LET stored == Before.npcs[id].difficulty
  IN \/ stored = "hard"
     \/ stored = "medium" /\ Len(Before.gameState.players[id].snake) > 30

C2_NoDeadEnd ==
  Ticked =>
    \A id \in DOMAIN gameState.players :
      (/\ Consulted(id)
       /\ TopTier(id)
       /\ proposal[id] \in Directions
       /\ \E move \in Directions :
            /\ isMoveImmediatelySafe(Before.gameState.players[id].snake[1], move,
                                     Before.gameState, id)
            /\ SpaceAfter(id, move) >= Len(Before.gameState.players[id].snake))
        => SpaceAfter(id, proposal[id]) >= Len(Before.gameState.players[id].snake)

\* C7: an agent of no known tier gets the middle tier's parameters, and its
\* decision is the one an agent stored as the middle tier would make in the
\* same state with the same draws.
C7_UnknownIsMedium ==
  Ticked =>
    \A id \in DOMAIN gameState.players :
      (FirstConsulted(id) /\ Before.npcs[id].difficulty \notin KnownTiers)
        => /\ getDifficultySettings(Before.npcs[id].difficulty) = mediumSettings
           /\ LET asMedium ==
                    decideNPCMove([Before.npcs[id] EXCEPT !.difficulty = "medium"],
                                  Before.gameState, Before.gameState.players[id], id,
                                  PadDraws(rand, DrawsPerDecision))
              IN /\ proposal[id] = asMedium.move
                 /\ npcs[id].decisionDelay = asMedium.decisionDelay

\* C8: the tier a tick decides with is the stored tier, but the middle tier
\* for a lowest-tier bot longer than 20 and the top tier for a middle-tier bot
\* longer than 30, one step at most; a tick leaves the stored tier alone.
\* The tier decided with shows in the counter a decision resets.
ExpectedTier(stored, len) ==
  CASE stored = "easy" -> IF len > 20 THEN "medium" ELSE "easy"
    [] stored = "medium" -> IF len > 30 THEN "hard" ELSE "medium"
    [] OTHER -> stored

TierDelay(tier) ==
  CASE tier = "easy" -> 10
    [] tier = "medium" -> 4
    [] tier = "hard" -> 0

C8_EffectiveTier ==
  Ticked =>
    \A id \in DOMAIN npcs :
      /\ npcs[id].difficulty = Before.npcs[id].difficulty
      /\ (/\ id \in DOMAIN gameState.players
          /\ Consulted(id)
          /\ Before.npcs[id].decisionDelay = 0
          /\ Before.npcs[id].difficulty \in KnownTiers)
           => npcs[id].decisionDelay =
                TierDelay(ExpectedTier(Before.npcs[id].difficulty,
                                       Len(Before.gameState.players[id].snake)))

\* A lowest-tier bot longer than 30 decided as the middle tier, and a
\* middle-tier bot of exactly 30 decided as the middle tier.
C8_Witness ==
  /\ Ticked
  /\ \E id \in DOMAIN npcs :
       /\ Consulted(id)
       /\ Before.npcs[id].decisionDelay = 0
       /\ Before.npcs[id].difficulty = "easy"
       /\ Len(Before.gameState.players[id].snake) > 30
       /\ npcs[id].decisionDelay = 4

\* C9: a bot with no immediately safe direction gets no proposal, and its
\* nextDirection is as before the tick.
Cornered(id) ==
  \A move \in Directions :
    ~isMoveImmediatelySafe(Before.gameState.players[id].snake[1], move,
                           Before.gameState, id)

C9_CorneredNoOp ==
  Ticked =>
    \A id \in DOMAIN gameState.players :
      (Consulted(id) /\ Cornered(id))
        => /\ proposal[id] = Null
           /\ gameState.players[id].nextDirection =
                Before.gameState.players[id].nextDirection

\* A cornered bot whose delay gate was open.
C9_Witness ==
  /\ Ticked
  /\ \E id \in DOMAIN gameState.players :
       /\ Consulted(id)
       /\ Cornered(id)
       /\ Before.npcs[id].decisionDelay = 0
       /\ proposal[id] = Null

\* C10: a tick changes only the decisionDelay of the agents of the consulted
\* players and the nextDirection of those players: the snakes, directions,
\* isAlive flags, the food, the topology, the players not consulted and their
\* agents are as before.
C10_Frame ==
  Ticked =>
    /\ gameState.food = Before.gameState.food
    /\ gameState.wallMode = Before.gameState.wallMode
    /\ DOMAIN gameState.players = DOMAIN Before.gameState.players
    /\ DOMAIN npcs = DOMAIN Before.npcs
    /\ \A id \in DOMAIN gameState.players :
         /\ [gameState.players[id] EXCEPT !.nextDirection = "any"]
              = [Before.gameState.players[id] EXCEPT !.nextDirection = "any"]
         /\ ~Consulted(id) => gameState.players[id] = Before.gameState.players[id]
    /\ \A id \in DOMAIN npcs :
         /\ [npcs[id] EXCEPT !.decisionDelay = 0]
              = [Before.npcs[id] EXCEPT !.decisionDelay = 0]
         /\ ~(id \in DOMAIN gameState.players /\ Consulted(id))
              => npcs[id] = Before.npcs[id]

\* A tick that turned one bot and reset its agent's counter, next to a dead
\* bot whose agent was waiting.
C10_Witness ==
  /\ Ticked
  /\ \E id, dead \in DOMAIN gameState.players :
       /\ Consulted(id)
       /\ gameState.players[id].nextDirection # Before.gameState.players[id].nextDirection
       /\ npcs[id].decisionDelay # Before.npcs[id].decisionDelay
       /\ ~Before.gameState.players[dead].isAlive
       /\ dead \in DOMAIN npcs
       /\ npcs[dead].decisionDelay > 0

\* C6: when the decision reaches the greedy steering and there is food, the
\* move proposed is the safe move whose next position is nearest the target
\* food, by Manhattan distance with each axis wrapped when the topology wraps,
\* the first such move in the order up, down, left, right; with the head at
\* (0, 0), one food at (width - 1, 0) and wrapping topology it is left.
SafeSet(id) ==
  {move \in Directions :
     isMoveImmediatelySafe(Before.gameState.players[id].snake[1], move,
                           Before.gameState, id)}

Gap(a, b, size, wallMode) ==
  LET raw == IF a >= b THEN a - b ELSE b - a
  IN IF wallMode \/ raw <= size - raw THEN raw ELSE size - raw

GreedyDist(pos, target, wallMode) ==
  Gap(pos.x, target.x, GRID_WIDTH, wallMode) + Gap(pos.y, target.y, GRID_HEIGHT, wallMode)

\* The first of the foods nearest the head, not wrapped.
TargetFood(id) ==
  LET head == Before.gameState.players[id].snake[1]
      food == Before.gameState.food
      far(k) == GreedyDist(food[k], head, TRUE)
  IN food[CHOOSE k \in 1..Len(food) :
            \A j \in 1..Len(food) : far(k) < far(j) \/ (far(k) = far(j) /\ k <= j)]

Rank(move) == CHOOSE i \in 1..Len(possibleMoves) : possibleMoves[i] = move

GreedyChoice(id) ==
  LET head == Before.gameState.players[id].snake[1]
      wallMode == Before.gameState.wallMode
      far(move) == GreedyDist(getNextCoord(head, move, wallMode), TargetFood(id), wallMode)
  IN CHOOSE move \in SafeSet(id) :
       \A other \in SafeSet(id) :
         \/ far(move) < far(other)
         \/ far(move) = far(other) /\ Rank(move) <= Rank(other)

\* The decision passed the delay gate and the error draw, and then either the
\* tier does not look for a path and the heading was not kept, or the tier
\* without the survival mode found no usable path.
FallbackReached(id) ==
  /\ FirstConsulted(id)
  /\ Before.npcs[id].decisionDelay = 0
  /\ SafeSet(id) # {}
  /\ LET player == Before.gameState.players[id]
         settings == getDifficultySettings(effectiveDifficulty(Before.npcs[id], player))
     IN /\ rand[1] >= settings.errorChance
        /\ \/ /\ ~settings.usePathfinding
              /\ player.direction \in SafeSet(id) => rand[2] >= 60
           \/ /\ settings.usePathfinding
              /\ ~settings.safetyCheck
              /\ foodPathMove(settings, player.snake[1], safeMovesOf(player.snake[1],
                                Before.gameState, id), Before.gameState, player, id) = Null

AcrossTheSeam(id) ==
  /\ ~Before.gameState.wallMode
  /\ Before.gameState.players[id].snake[1] = Pos(0, 0)
  /\ Before.gameState.food = <<Pos(GRID_WIDTH - 1, 0)>>

C6_GreedySteering ==
  Ticked =>
    \A id \in DOMAIN gameState.players :
      (FallbackReached(id) /\ Len(Before.gameState.food) > 0)
        => /\ proposal[id] = GreedyChoice(id)
           /\ AcrossTheSeam(id) => proposal[id] = "left"

\* The greedy steering chose a move whose next position is nearer the food
\* across the seam than another safe move's is without wrapping.
C6_Witness ==
  /\ Ticked
  /\ \E id \in DOMAIN gameState.players :
       /\ FallbackReached(id)
       /\ Len(Before.gameState.food) > 0
       /\ proposal[id] = GreedyChoice(id)
       /\ \E other \in SafeSet(id) :
            LET head == Before.gameState.players[id].snake[1]
                far(move) == GreedyDist(getNextCoord(head, move, FALSE), TargetFood(id), TRUE)
            IN far(other) < far(proposal[id])

(***************************************************************************)
(* The board as a graph, for the properties of the two searches: the cells *)
(* next to a cell, and the cells a search may enter.                       *)
(***************************************************************************)
NextTo(c) ==
  LET around == {Pos(c.x, c.y - 1), Pos(c.x, c.y + 1), Pos(c.x - 1, c.y), Pos(c.x + 1, c.y)}
  IN IF gameState.wallMode
       THEN around
       ELSE {Pos(a.x % GRID_WIDTH, a.y % GRID_HEIGHT) : a \in around}

Snakes ==
  UNION {SeqSet(gameState.players[id].snake) :
           id \in {i \in DOMAIN gameState.players : gameState.players[i].isAlive}}

Enterable == Cells \ Snakes

\* The cells reached from the cells of seen, frontier being the newest.
RECURSIVE Reachable(_, _)
Reachable(frontier, seen) ==
  IF frontier = {}
    THEN seen
    ELSE LET further == (UNION {NextTo(c) : c \in frontier} \cap Enterable) \ seen
         IN Reachable(further, seen \cup further)

\* The least number of steps through enterable cells from a cell of frontier
\* to a cell of goals, frontier being d steps from where the search began;
\* -1 when there is no way.
RECURSIVE Steps(_, _, _, _)
Steps(frontier, seen, goals, d) ==
  IF frontier \cap goals # {}
    THEN d
    ELSE IF frontier = {}
      THEN -1
      ELSE LET further == (UNION {NextTo(c) : c \in frontier} \cap Enterable) \ seen
           IN Steps(further, seen \cup further, goals, d + 1)

\* C3: countAccessibleTiles returns the smaller of the limit and the number
\* of cells reachable from the start through cells that are not occupied, the
\* start counted, in walled and in wrapping topology.
C3_FloodCount ==
  probe.fn = "countAccessibleTiles" =>
    LET N == Cardinality(Reachable({probe.startPos}, {probe.startPos}))
    IN probe.result = IF probe.limit <= N THEN probe.limit ELSE N

\* A call that counted a whole region of several cells, smaller than the
\* limit and smaller than the board.
C3_Witness ==
  /\ probe.fn = "countAccessibleTiles"
  /\ probe.result > 1
  /\ probe.result < probe.limit
  /\ probe.result < Cardinality(Enterable)
  /\ probe.startPos \in Enterable

\* C4: when a food is within the depth cap of the head through cells that are
\* not occupied, findPathToClosestFood returns the distance of the nearest
\* food, and as firstMove the first move, in the order up, down, left, right,
\* that begins a shortest path to a food at that distance.
FoodCells == SeqSet(gameState.food)

StepsFrom(c) == Steps({c}, {c}, FoodCells, 0)

ProbeHead == gameState.players[probe.id].snake[1]

FoodSteps == Steps({ProbeHead}, {ProbeHead}, FoodCells, 0)

\* The moves that begin a shortest path to a nearest food.
ShortestStarts ==
  {move \in Directions :
     LET c == getNextCoord(ProbeHead, move, gameState.wallMode)
     IN c \in Enterable /\ StepsFrom(c) = FoodSteps - 1}

C4_ShortestPath ==
  (probe.fn = "findPathToClosestFood" /\ FoodSteps >= 1 /\ FoodSteps <= SearchDepthCap) =>
       /\ probe.result.dist = FoodSteps
       /\ probe.result.firstMove \in ShortestStarts
       /\ \A move \in ShortestStarts : Rank(probe.result.firstMove) <= Rank(move)

\* A call with a nearest food more than one step away and two moves that
\* begin a shortest path to it.
C4_Witness ==
  /\ probe.fn = "findPathToClosestFood"
  /\ FoodSteps > 1
  /\ FoodSteps <= SearchDepthCap
  /\ Cardinality(ShortestStarts) > 1
  /\ probe.result.dist = FoodSteps

\* C12: when no food is within the depth cap (50 steps) of the head through
\* cells that are not occupied, findPathToClosestFood returns no path, and a
\* path it returns has a length of at most the cap.
C12_DepthCap ==
  probe.fn = "findPathToClosestFood" =>
    /\ (FoodSteps = -1 \/ FoodSteps > SearchDepthCap) => probe.result = NoPath
    /\ probe.result # NoPath => probe.result.dist <= SearchDepthCap

\* C13: every search returns, having taken no cell twice off its queue or
\* stack, and a tick gives every consulted bot one of the four directions or
\* no direction.
Once(cells) == \A i, j \in 1..Len(cells) : cells[i] = cells[j] => i = j

C13_SearchesVisitOnce ==
  /\ probe.fn \in {"findPathToClosestFood", "countAccessibleTiles"} =>
       /\ probe.returned
       /\ Once(probe.taken)
  /\ Called =>
       \A id \in DOMAIN gameState.players :
         Consulted(id) => proposal[id] \in Directions \cup {Null}

\* C14: a tick that takes the players in any order, each bot with the same
\* draws, ends with the decisionDelay of every agent and the nextDirection of
\* every player that the tick in the order of the players map ends with.
InMapOrder ==
  processEach(ascending(DOMAIN Before.gameState.players), Before.gameState, Before.npcs,
              probe.drawsOf, <<>>, Before.proposal)

C14_OrderIndependent ==
  call = "ordered" =>
    \E ref \in {InMapOrder} :
      /\ \A id \in DOMAIN npcs : npcs[id].decisionDelay = ref.npcs[id].decisionDelay
      /\ \A id \in DOMAIN gameState.players :
           gameState.players[id].nextDirection = ref.gameState.players[id].nextDirection

\* A tick that took two consulted bots in the other order than the map's and
\* turned both.
C14_Witness ==
  /\ call = "ordered"
  /\ probe.order # ascending(DOMAIN gameState.players)
  /\ \A id \in DOMAIN gameState.players :
       /\ Consulted(id)
       /\ gameState.players[id].nextDirection # Before.gameState.players[id].nextDirection

(***************************************************************************)
(* What a decision at the top tier is expected to be, from the board as a  *)
(* graph: the food path's first step, the room behind a move, the move of  *)
(* the survival mode.                                                      *)
(***************************************************************************)
HeadOf(id) == Before.gameState.players[id].snake[1]

LenOf(id) == Len(Before.gameState.players[id].snake)

Ahead(id, move) == getNextCoord(HeadOf(id), move, Before.gameState.wallMode)

GateOpen(id) == Consulted(id) /\ Before.npcs[id].decisionDelay = 0

\* A food lies within the depth cap of the head.
PathFound(id) == StepsFrom(HeadOf(id)) \in 1..SearchDepthCap

\* The first move, in the order up, down, left, right, that begins a shortest
\* path to a nearest food.
FirstStep(id) ==
  LET starts == {move \in Directions :
                   /\ Ahead(id, move) \in Enterable
                   /\ StepsFrom(Ahead(id, move)) = StepsFrom(HeadOf(id)) - 1}
  IN CHOOSE move \in starts : \A other \in starts : Rank(move) <= Rank(other)

\* The number of cells reachable from the position a move leads to.
Room(id, move) == Cardinality(Reachable({Ahead(id, move)}, {Ahead(id, move)}))

\* The survival mode: the first safe move with the most room, the room
\* counted up to 100, when that is at least the snake's length, and else the
\* first safe move whose next position is nearest the tail.
SurvivalPick(id) ==
  LET rooms == [move \in SafeSet(id) |-> Min(Room(id, move), 100)]
      tail == Before.gameState.players[id].snake[LenOf(id)]
      gaps == [move \in SafeSet(id) |->
                 GreedyDist(Ahead(id, move), tail, Before.gameState.wallMode)]
      roomiest == CHOOSE move \in SafeSet(id) :
                    \A other \in SafeSet(id) :
                      \/ rooms[move] > rooms[other]
                      \/ rooms[move] = rooms[other] /\ Rank(move) <= Rank(other)
      nearest == CHOOSE move \in SafeSet(id) :
                   \A other \in SafeSet(id) :
                     \/ gaps[move] < gaps[other]
                     \/ gaps[move] = gaps[other] /\ Rank(move) <= Rank(other)
  IN IF rooms[roomiest] >= LenOf(id) THEN roomiest ELSE nearest

InScenario(id) ==
  /\ GRID_WIDTH = 10
  /\ GRID_HEIGHT = 10
  /\ Before.gameState.wallMode
  /\ DOMAIN Before.gameState.players = {id}
  /\ Before.gameState.players[id].snake = <<Pos(5, 5)>>
  /\ Before.gameState.food = <<Pos(5, 0)>>

\* C15 as stated: at the top tier, with the delay gate open and a food path
\* found, the move proposed is the path's first step if and only if the room
\* behind that step is at least the snake's length; in the scenario of the 10
\* by 10 board the path is 5 long and the move proposed is up.
C15_PathStepIffRoom ==
  Ticked =>
    \A id \in DOMAIN gameState.players :
      (GateOpen(id) /\ TopTier(id) /\ PathFound(id)) =>
        /\ proposal[id] = FirstStep(id) <=> Room(id, FirstStep(id)) >= LenOf(id)
        /\ InScenario(id) =>
             /\ proposal[id] = "up"
             /\ findPathToClosestFood(HeadOf(id), Before.gameState, id).dist = 5

\* C15, amended: at the top tier, with the delay gate open and a food path
\* found, the move proposed is the path's first step when the room behind
\* that step is at least the snake's length, and the move of the survival
\* mode, which may be that same step, when it is less; in the scenario of the
\* 10 by 10 board the path is 5 long and the move proposed is up.
C15_PathOrSurvival ==
  Ticked =>
    \A id \in DOMAIN gameState.players :
      (GateOpen(id) /\ TopTier(id) /\ PathFound(id)) =>
        /\ proposal[id] =
             IF Room(id, FirstStep(id)) >= LenOf(id)
               THEN FirstStep(id)
               ELSE SurvivalPick(id)
        /\ InScenario(id) =>
             /\ proposal[id] = "up"
             /\ findPathToClosestFood(HeadOf(id), Before.gameState, id).dist = 5

\* A food path refused for want of room, the survival mode proposing another
\* move than the path's first step.
C15_Witness ==
  /\ Ticked
  /\ \E id \in DOMAIN gameState.players :
       /\ GateOpen(id)
       /\ TopTier(id)
       /\ PathFound(id)
       /\ Room(id, FirstStep(id)) < LenOf(id)
       /\ proposal[id] # FirstStep(id)

\* The bot is decided with the middle tier's parameters.
MiddleTier(id) ==
  LET stored == Before.npcs[id].difficulty
  IN \/ stored = "medium" /\ LenOf(id) <= 30
     \/ stored = "easy" /\ LenOf(id) > 20
     \/ stored \notin KnownTiers

\* The middle tier reached its path search: the gate was open and the error
\* draw, the first of the tick, did not fire.
MiddleSearch(id) ==
  /\ GateOpen(id)
  /\ FirstConsulted(id)
  /\ MiddleTier(id)
  /\ PathFound(id)
  /\ rand[1] >= 5

\* The path's first step passes the middle tier's check: the room behind it,
\* counted up to 20, is at least half the snake's length.
RoomForHalf(id) == 2 * Min(Room(id, FirstStep(id)), 20) >= LenOf(id)

\* C16 as stated: at the middle tier, the error not fired and a food path
\* found, the move proposed is the path's first step if and only if the room
\* behind that step, counted up to 20, is at least half the snake's length.
C16_PathStepIffHalfRoom ==
  Ticked =>
    \A id \in DOMAIN gameState.players :
      MiddleSearch(id) => (proposal[id] = FirstStep(id) <=> RoomForHalf(id))

\* C16, amended: at the middle tier, the error not fired and a food path
\* found, the move proposed is the path's first step when the room behind
\* that step, counted up to 20, is at least half the snake's length, and else
\* the move of the greedy steering, which may be that same step; the survival
\* mode and the preference for the current heading play no part.
C16_PathOrGreedy ==
  Ticked =>
    \A id \in DOMAIN gameState.players :
      MiddleSearch(id) =>
        proposal[id] = IF RoomForHalf(id) THEN FirstStep(id) ELSE GreedyChoice(id)

\* A food path refused by the middle tier, the greedy steering proposing
\* another move than the path's first step.
C16_Witness ==
  /\ Ticked
  /\ \E id \in DOMAIN gameState.players :
       /\ MiddleSearch(id)
       /\ ~RoomForHalf(id)
       /\ proposal[id] # FirstStep(id)

\* The top tier is in its survival mode: the gate open, a safe move at hand,
\* and no food reachable or the path's first step refused for want of room.
SurvivalMode(id) ==
  /\ GateOpen(id)
  /\ TopTier(id)
  /\ SafeSet(id) # {}
  /\ \/ StepsFrom(HeadOf(id)) = -1
     \/ PathFound(id) /\ Room(id, FirstStep(id)) < LenOf(id)

\* C17: in the survival mode of the top tier the move proposed is the first
\* safe move, in the order up, down, left, right, with the most room counted
\* up to 100 when that room is at least the snake's length, and else the
\* first safe move whose next position is nearest the tail by Manhattan
\* distance, each axis wrapped when the topology wraps.
C17_Survival ==
  Ticked =>
    \A id \in DOMAIN gameState.players :
      SurvivalMode(id) => proposal[id] = SurvivalPick(id)

\* A survival mode that found too little room behind every move and chased
\* the tail with another move than the one with the most room.
C17_Witness ==
  /\ Ticked
  /\ \E id \in DOMAIN gameState.players :
       /\ SurvivalMode(id)
       /\ \A move \in SafeSet(id) : Min(Room(id, move), 100) < LenOf(id)
       /\ \E move \in SafeSet(id) : Room(id, move) > Room(id, proposal[id])

\* C18: the food the greedy steering takes as its target is a food nearest
\* the head by Manhattan distance, each axis wrapped when the topology wraps.
C18_TargetNearestWrapped ==
  Ticked =>
    \A id \in DOMAIN gameState.players :
      (FallbackReached(id) /\ Len(Before.gameState.food) > 0) =>
        LET food == Before.gameState.food
            target == food[targetFoodIndex(HeadOf(id), Before.gameState)]
        IN \A k \in 1..Len(food) :
             GreedyDist(HeadOf(id), target, Before.gameState.wallMode)
               <= GreedyDist(HeadOf(id), food[k], Before.gameState.wallMode)

\* C19: at the top tier the decision does not depend on the draws: whatever
\* draws the tick took, under draws that fire every error chance above zero
\* or none, and keep the heading or not, decideNPCMove from the state before
\* the tick returns the move the tick proposed and leaves the counter the
\* tick left.
C19_TopTierIgnoresDraws ==
  Ticked =>
    \A id \in DOMAIN gameState.players :
      (Consulted(id) /\ TopTier(id)) =>
        \A rs \in {0, 80} \X {0, 80} :
          \E d \in {decideNPCMove(Before.npcs[id], Before.gameState,
                                   Before.gameState.players[id], id, rs)} :
            /\ d.move = proposal[id]
            /\ d.decisionDelay = npcs[id].decisionDelay

\* A top-tier bot with several safe moves decided under a draw of 0, the draw
\* that fires every error chance above zero.
C19_Witness ==
  /\ Ticked
  /\ \E id \in DOMAIN gameState.players :
       /\ FirstConsulted(id)
       /\ GateOpen(id)
       /\ TopTier(id)
       /\ Cardinality(SafeSet(id)) > 1
       /\ rand = <<0>>
       /\ proposal[id] \in Directions

\* The reaction delay of the tier a bot is decided with: 10 at the lowest
\* tier, 4 at the middle tier and for a tier that is not known, 0 at the top.
ResetDelay(id) ==
  LET stored == Before.npcs[id].difficulty
  IN IF stored \in KnownTiers
       THEN TierDelay(ExpectedTier(stored, Len(Before.gameState.players[id].snake)))
       ELSE 4

\* C11 as stated: every agent's decisionDelay is an integer >= 0, and a call
\* of processNPCInputs takes the counter of every consulted bot down by one.
C11_DecrementEveryTick ==
  /\ \A id \in DOMAIN npcs : npcs[id].decisionDelay \in Nat
  /\ Called =>
       \A id \in DOMAIN gameState.players :
         Consulted(id) => npcs[id].decisionDelay = Before.npcs[id].decisionDelay - 1

\* C11, amended: every agent's decisionDelay is an integer >= 0; a call of
\* processNPCInputs takes a positive counter of a consulted bot down by
\* exactly one, and resets a counter of zero to the reaction delay of the
\* tier the bot is decided with.
C11_DelayCounter ==
  /\ \A id \in DOMAIN npcs : npcs[id].decisionDelay \in Nat
  /\ Called =>
       \A id \in DOMAIN gameState.players :
         Consulted(id) =>
           npcs[id].decisionDelay =
             IF Before.npcs[id].decisionDelay > 0
               THEN Before.npcs[id].decisionDelay - 1
               ELSE ResetDelay(id)

\* A second call that found the counter of a consulted bot positive and took
\* it down by one.
C11_Witness ==
  /\ call = "retick"
  /\ \E id \in DOMAIN gameState.players :
       /\ Consulted(id)
       /\ Before.npcs[id].decisionDelay > 1
       /\ npcs[id].decisionDelay = Before.npcs[id].decisionDelay - 1

\* C20: in a run of ticks, once the delay gate has reset an agent's counter
\* to d (10, 4 or 0), the counter is d less the consulted ticks the bot has
\* waited since, which are at most d, and on a tick it waits the bot is
\* proposed nothing: it waits d consulted ticks and is decided again on the
\* next; the counter of a bot stored as the top tier is always 0, and no bot
\* waits more than 10 consulted ticks in a row.
C20_HoldsThenReconsiders ==
  call = "on" =>
    \A id \in DOMAIN npcs :
      /\ probe.due[id] >= 0 =>
           /\ probe.due[id] \in {10, 4, 0}
           /\ probe.waited[id] <= probe.due[id]
           /\ npcs[id].decisionDelay = probe.due[id] - probe.waited[id]
      /\ (Consulted(id) /\ probe.waited[id] > 0) => proposal[id] = Null
      /\ (Consulted(id) /\ probe.waited[id] = 0) => npcs[id].decisionDelay = ResetDelay(id)
      /\ (IsConsulted(id) /\ npcs[id].difficulty = "hard") => npcs[id].decisionDelay = 0
      /\ probe.waited[id] <= 10

\* A bot that was reset to 10 as the lowest tier, grew past the threshold
\* while it waited, waited out its 10 ticks and was reset to 4.
C20_Witness ==
  /\ call = "on"
  /\ \E id \in DOMAIN npcs :
       /\ Consulted(id)
       /\ npcs[id].difficulty = "easy"
       /\ probe.ticks = 12
       /\ probe.waited[id] = 0
       /\ probe.due[id] = 4

\* A position a snake may move to: on the board, and held by no segment, the
\* tail included, of a living snake.
FreeBefore ==
  Cells \ UNION {SeqSet(Before.gameState.players[id].snake) :
                   id \in {i \in DOMAIN Before.gameState.players :
                             Before.gameState.players[i].isAlive}}

FreeAhead(id, move) == Ahead(id, move) \in FreeBefore

\* The error draw, the first of the tick, fired for the bot.
ErrorFired(id) ==
  /\ FirstConsulted(id)
  /\ Len(rand) >= 1
  /\ rand[1] < getDifficultySettings(
                  effectiveDifficulty(Before.npcs[id], Before.gameState.players[id])).errorChance

\* C21: when the delay gate of a living bot is open and some direction leads
\* to a free position, the decision proposes a direction, never nothing, and
\* the position that direction leads to is free: on the board under walled
\* topology and held by no segment, the tail included, of a living snake.
\* This holds at every tier and on every branch of the decision.
C21_ProposalIsSafe ==
  Ticked =>
    \A id \in DOMAIN gameState.players :
      (GateOpen(id) /\ \E move \in Directions : FreeAhead(id, move)) =>
        /\ proposal[id] \in Directions
        /\ FreeAhead(id, proposal[id])

\* An error-injected random move of a bot that had an unsafe direction to
\* avoid and more than one free position to choose from.
C21_Witness ==
  /\ Ticked
  /\ \E id \in DOMAIN gameState.players :
       /\ GateOpen(id)
       /\ ErrorFired(id)
       /\ \E move \in Directions : ~FreeAhead(id, move)
       /\ Cardinality({move \in Directions : FreeAhead(id, move)}) >= 2
       /\ proposal[id] \in Directions
       /\ FreeAhead(id, proposal[id])
       /\ proposal[id] # Before.gameState.players[id].direction

\* The bot is decided with parameters that look for a food path and have no
\* survival mode.
EffectiveMiddle(id) ==
  LET settings == getDifficultySettings(
                    effectiveDifficulty(Before.npcs[id], Before.gameState.players[id]))
  IN settings.usePathfinding /\ ~settings.safetyCheck

\* The move of the greedy fallback: the first safe move when there is no
\* food, and else the safe move nearest the target food.
GreedyFallback(id) ==
  IF Before.gameState.food = <<>>
    THEN CHOOSE move \in SafeSet(id) : \A other \in SafeSet(id) : Rank(move) <= Rank(other)
    ELSE GreedyChoice(id)

\* C22: a bot decided at the middle tier whose snake is longer than 40 is
\* stored as the lowest tier or as an unknown tier; the space counted behind
\* the food path's first step, capped at 20, is below half its length; and
\* its decision, when it has a safe move and the error draw did not fire, is
\* the move of the greedy fallback.
C22_LongMiddleIsGreedy ==
  Ticked =>
    \A id \in DOMAIN gameState.players :
      (GateOpen(id) /\ EffectiveMiddle(id) /\ LenOf(id) > 40) =>
        /\ Before.npcs[id].difficulty \notin {"medium", "hard"}
        /\ PathFound(id) =>
             2 * countAccessibleTiles(Ahead(id, FirstStep(id)), Before.gameState, id,
                                      MediumSpaceCap) < LenOf(id)
        /\ (FirstConsulted(id) /\ SafeSet(id) # {} /\ ~ErrorFired(id)) =>
             proposal[id] = GreedyFallback(id)

\* A snake of more than 40 segments at the middle tier with a food path
\* whose first step has room for 20 and more, proposing another move than
\* that step.
C22_Witness ==
  /\ Ticked
  /\ \E id \in DOMAIN gameState.players :
       /\ GateOpen(id)
       /\ FirstConsulted(id)
       /\ EffectiveMiddle(id)
       /\ LenOf(id) > 40
       /\ PathFound(id)
       /\ ~ErrorFired(id)
       /\ Room(id, FirstStep(id)) >= 20
       /\ proposal[id] \in Directions
       /\ proposal[id] # FirstStep(id)

====
